---- MODULE Spec2Model ----
(***************************************************************************)
(* Model of the document pipeline stages of                                *)
(* week6/3-document-extractor (input_validator and extractor Lambda        *)
(* handlers).  A handler is a function of its event and of what the two    *)
(* external collaborators answer: the object store (s3_client.get_object)  *)
(* and the inference agent (agent(...)).  Python values are tagged         *)
(* records, a dict is a function from its keys, and the agent's response   *)
(* text is a sequence of lexical tokens.                                   *)
(***************************************************************************)
EXTENDS Integers, Sequences, FiniteSets, TLC

\* ------------------------------------------------------------------ bounds
\* Longest inference response text, in tokens.
MaxLen == 5
\* Largest retry_count an input event carries.
MaxRetry == 2
\* The most extractor invocations an orchestrator chains for one document.
MaxAttempts == 3
\* The largest retry ceiling an orchestrator is configured with.
MaxCeiling == 3
\* The number of items one page of a DynamoDB query result holds.
PageLimit == 2

\* ----------------------------------------------------------- Python values
PyNone == [t |-> "none"]
PyStr(s) == [t |-> "str", s |-> s]
PyInt(n) == [t |-> "int", n |-> n]
PyFloat(n) == [t |-> "float", n |-> n]
PyBool(b) == [t |-> "bool", b |-> b]
PyDict(d) == [t |-> "dict", d |-> d]
PyList(l) == [t |-> "list", l |-> l]

\* Marks a key that a dict under construction does not have.
Absent == [t |-> "absent"]
EmptyDict == [k \in {} |-> PyNone]
Entry(name, v) == IF v = Absent THEN EmptyDict ELSE name :> v

\* dict.get(key) and dict.get(key, default)
DictGet(d, k, default) == IF k \in DOMAIN d THEN d[k] ELSE default

\* Python truthiness, as used by `not bucket` and bool(extracted_data).
Truthy(v) ==
    CASE v.t = "none" -> FALSE
      [] v.t = "str" -> v.s # ""
      [] v.t = "int" -> v.n # 0
      [] v.t = "float" -> v.n # 0
      [] v.t = "bool" -> v.b
      [] v.t = "dict" -> DOMAIN v.d # {}
      [] v.t = "list" -> Len(v.l) > 0
      [] OTHER -> TRUE

\* The outcome of evaluating an expression: a value, or a raised exception.
Ok(v) == [ok |-> TRUE, v |-> v, exc |-> "", msg |-> ""]
Raise(exc, msg) == [ok |-> FALSE, v |-> PyNone, exc |-> exc, msg |-> msg]

\* event.get("retry_count", 0) with the + 1 left out.
RetryCountNotIncremented(event) ==
    LET v == DictGet(event, "retry_count", PyInt(0)) IN
    IF v.t \in {"int", "bool"} THEN Ok(v)
    ELSE Raise("TypeError", "unsupported operand type(s) for +")

\* event.get("retry_count", 0) + 1: int + int, bool + int; None + 1 and
\* str + 1 raise TypeError.
RetryCountPlusOne(event) ==
    LET v == DictGet(event, "retry_count", PyInt(0)) IN
    CASE v.t = "int" -> Ok(PyInt(v.n + 1))
      [] v.t = "bool" -> Ok(PyInt((IF v.b THEN 1 ELSE 0) + 1))
      [] v.t = "none" ->
            Raise("TypeError", "unsupported operand type(s) for +: 'NoneType' and 'int'")
      [] v.t = "str" ->
            Raise("TypeError", "can only concatenate str (not \"int\") to str")
      [] OTHER -> Raise("TypeError", "unsupported operand type(s) for +")

\* ------------------------------------------------- inference response text
(* The response text is a sequence of tokens.  "{" and "}" are the brace    *)
(* characters, "noise" is any run of other non-blank text (commentary,      *)
(* markdown fences), and "members" is a well-formed comma-separated run of  *)
(* "key": value pairs, whose content is carried beside the text as a dict   *)
(* from keys to the values json.loads would give them.                      *)
LBrace == "{"
RBrace == "}"
Noise == "noise"
Members == "members"
Token == {LBrace, RBrace, Noise, Members}

RECURSIVE FindFrom(_, _, _)
FindFrom(text, ch, i) ==
    IF i > Len(text) THEN -1
    ELSE IF text[i] = ch THEN i - 1
    ELSE FindFrom(text, ch, i + 1)

RECURSIVE RFindFrom(_, _, _)
RFindFrom(text, ch, i) ==
    IF i < 1 THEN -1
    ELSE IF text[i] = ch THEN i - 1
    ELSE RFindFrom(text, ch, i - 1)

\* str.find replaced by str.rfind: the last occurrence instead of the first.
FindLast(text, ch) == RFindFrom(text, ch, Len(text))

\* str.find(ch) and str.rfind(ch): 0-based index, or -1.
Find(text, ch) == FindFrom(text, ch, 1)
RFind(text, ch) == RFindFrom(text, ch, Len(text))

\* text[a:b] for 0 <= a and 0 <= b <= len(text); empty when a >= b.
Slice(text, a, b) == IF a >= b THEN <<>> ELSE SubSeq(text, a + 1, b)

\* json.loads on the token language: an object is "{" "}" or
\* "{" members "}"; everything else (the empty string, noise inside or
\* around the braces, nested or repeated braces without a key) is a
\* JSONDecodeError.
JsonLoads(s, members) ==
    IF s = <<LBrace, RBrace>> THEN Ok(PyDict(EmptyDict))
    ELSE IF s = <<LBrace, Members, RBrace>> THEN Ok(PyDict(members))
    ELSE Raise("JSONDecodeError", "Expecting value")

\* Lines 54-61 of input_validator/main.py, 56-63 of extractor/main.py:
\* find the first "{" and the last "}", slice, json.loads.
FindAndParseJson(text, members) ==
    LET json_start == Find(text, LBrace)
        json_end == RFind(text, RBrace) + 1
    IN  IF json_start = -1 \/ json_end = 0
        THEN Raise("ValueError", "No JSON object found in the response.")
        ELSE JsonLoads(Slice(text, json_start, json_end), members)

\* ------------------------------------------------------ schema validation
\* pydantic's lax conversion of a Python value to a bool field: a bool; the
\* ints 0 and 1; the strings 0/off/f/false/n/no and 1/on/t/true/y/yes.
BoolTrueStrings == {"1", "on", "t", "true", "y", "yes"}
BoolFalseStrings == {"0", "off", "f", "false", "n", "no"}
CoerceBool(v) ==
    CASE v.t = "bool" -> Ok(v)
      [] v.t \in {"int", "float"} ->
            IF v.n = 1 THEN Ok(PyBool(TRUE))
            ELSE IF v.n = 0 THEN Ok(PyBool(FALSE))
            ELSE Raise("ValidationError", "Input should be a valid boolean")
      [] v.t = "str" ->
            IF v.s \in BoolTrueStrings THEN Ok(PyBool(TRUE))
            ELSE IF v.s \in BoolFalseStrings THEN Ok(PyBool(FALSE))
            ELSE Raise("ValidationError", "Input should be a valid boolean")
      [] OTHER -> Raise("ValidationError", "Input should be a valid boolean")

\* to a str field: only a str.
CoerceStr(v) ==
    IF v.t = "str" THEN Ok(v)
    ELSE Raise("ValidationError", "Input should be a valid string")

\* The numeric strings the model's responses use, with the number each reads as.
StrAsFloat(s) ==
    CASE s = "100" -> Ok(PyFloat(100))
      [] s = "250" -> Ok(PyFloat(250))
      [] OTHER -> Raise("ValidationError", "Input should be a valid number")

\* to a float field: a float, an int, a bool, or a string that reads as a number.
CoerceFloat(v) ==
    CASE v.t = "float" -> Ok(v)
      [] v.t = "int" -> Ok(PyFloat(v.n))
      [] v.t = "bool" -> Ok(PyFloat(IF v.b THEN 1 ELSE 0))
      [] v.t = "str" -> StrAsFloat(v.s)
      [] OTHER -> Raise("ValidationError", "Input should be a valid number")

Coerce(type, v) ==
    CASE type = "bool" -> CoerceBool(v)
      [] type = "str" -> CoerceStr(v)
      [] type = "float" -> CoerceFloat(v)

\* class ValidationResult(BaseModel): one required field.
ValidationResult == [is_bank_statement |-> "bool"]

\* class BankStatementData(BaseModel): six required fields, no defaults.
BankStatementData ==
    [BankName |-> "str", AccountNumber |-> "str", OpeningBalance |-> "float",
     ClosingBalance |-> "float", StartDate |-> "str", EndDate |-> "str"]

\* The schema's fields declared with a default of None: a missing field is
\* filled in instead of failing validation.
ModelValidateDefaults(schema, d) ==
    LET present == {f \in DOMAIN schema : f \in DOMAIN d}
        bad == {f \in present : ~Coerce(schema[f], d[f]).ok}
    IN  IF bad # {} THEN Raise("ValidationError", "Input should be valid")
        ELSE Ok(PyDict([f \in DOMAIN schema |->
                           IF f \in present THEN Coerce(schema[f], d[f]).v ELSE PyNone]))

\* Model(**parsed_json) followed by model_dump(): every field of the schema
\* must be present and convertible; keys the schema does not name are
\* ignored; the dump holds the converted values of exactly the schema's fields.
ModelValidate(schema, d) ==
    LET missing == {f \in DOMAIN schema : f \notin DOMAIN d}
        bad == {f \in DOMAIN schema \ missing : ~Coerce(schema[f], d[f]).ok}
    IN  IF missing # {} THEN Raise("ValidationError", "Field required")
        ELSE IF bad # {} THEN Raise("ValidationError", "Input should be valid")
        ELSE Ok(PyDict([f \in DOMAIN schema |-> Coerce(schema[f], d[f]).v]))

\* ------------------------------------------------------------ collaborators
(* What the inference agent answers: it raises (a service error, a client   *)
(* timeout), or returns a response whose str() is `text`.                   *)
AgentCall(llm) ==
    IF llm.kind = "raise" THEN Raise(llm.exc, "inference call failed")
    ELSE Ok(llm.text)

(* s3_client.get_object(Bucket=bucket, Key=key) then response["Body"].read(): *)
(* the client rejects a bucket or key that is not a non-empty string, the     *)
(* store raises its fault (NoSuchKey, a transport error, a read timeout), or  *)
(* the document's bytes come back.                                            *)
GetObjectAndRead(s3, bucket, key) ==
    IF bucket.t # "str" \/ key.t # "str" \/ bucket.s = "" \/ key.s = ""
    THEN Raise("ParamValidationError", "Parameter validation failed")
    ELSE IF s3.fault # "none" THEN Raise(s3.fault, "An error occurred (" \o s3.fault \o ")")
    ELSE Ok(s3.doc)

\* `except ValueError` in place of `except Exception`.
IsOnlyValueError(exc) == exc = "ValueError"

\* `except Exception`: every exception the collaborators and the handler's
\* own statements raise derives from Exception.
BaseOnlyExceptions == {"KeyboardInterrupt", "SystemExit", "GeneratorExit"}
IsException(exc) == exc \notin BaseOnlyExceptions

\* ------------------------------------------------------------------- stages
\* The try body of both stage functions after the agent call: parse the
\* response text and validate it against the schema.
ParseStructured(schema, llm) ==
    LET response == AgentCall(llm) IN
    IF ~response.ok THEN response
    ELSE LET parsed_json == FindAndParseJson(response.v, llm.members) IN
         IF ~parsed_json.ok THEN parsed_json
         ELSE ModelValidate(schema, parsed_json.v.d)

\* validate_bank_statement whose except branch returns True (fail-open).
ValidateFailOpen(llm) ==
    LET validation_result == ParseStructured(ValidationResult, llm) IN
    IF validation_result.ok THEN Ok(validation_result.v.d.is_bank_statement)
    ELSE Ok(PyBool(TRUE))

\* validate_bank_statement: the parsed is_bank_statement, False on any exception.
ValidateBankStatement(llm) ==
    LET validation_result == ParseStructured(ValidationResult, llm) IN
    IF validation_result.ok THEN Ok(validation_result.v.d.is_bank_statement)
    ELSE IF IsException(validation_result.exc) THEN Ok(PyBool(FALSE))
    ELSE validation_result

\* extract_bank_statement_data whose except branch returns {"error": str(e)}.
ExtractErrorDict(llm) ==
    LET bank_statement_data == ParseStructured(BankStatementData, llm) IN
    IF bank_statement_data.ok THEN bank_statement_data
    ELSE Ok(PyDict([error |-> PyStr(bank_statement_data.msg)]))

\* extract_bank_statement_data returning the parsed JSON as it came,
\* without the BankStatementData(**parsed_json) step.
ExtractUnvalidated(llm) ==
    LET response == AgentCall(llm)
        parsed_json == FindAndParseJson(response.v, llm.members)
    IN  IF response.ok /\ parsed_json.ok THEN parsed_json
        ELSE Ok(PyDict(EmptyDict))

\* extract_bank_statement_data: the dumped record, {} on any exception.
ExtractBankStatementData(llm) ==
    LET bank_statement_data == ParseStructured(BankStatementData, llm) IN
    IF bank_statement_data.ok THEN bank_statement_data
    ELSE IF IsException(bank_statement_data.exc) THEN Ok(PyDict(EmptyDict))
    ELSE bank_statement_data

\* ------------------------------------------------------- extractor handler
\* The try body of extractor handler (lines 80-103).
ExtractorTry(event, s3, llm) ==
    IF "bucket" \notin DOMAIN event THEN Raise("KeyError", "'bucket'")
    ELSE IF "key" \notin DOMAIN event THEN Raise("KeyError", "'key'")
    ELSE
      LET bucket == event["bucket"]
          key == event["key"]
          file_content == GetObjectAndRead(s3, bucket, key)
      IN  IF ~file_content.ok THEN file_content
          ELSE
            LET extracted_data == ExtractBankStatementData(llm) IN
            IF ~extracted_data.ok THEN extracted_data
            ELSE
              LET is_valid == Truthy(extracted_data.v)
                  retry_count == RetryCountPlusOne(event)
              IN  IF ~retry_count.ok THEN retry_count
                  ELSE Ok(PyDict([bucket |-> bucket,
                                  key |-> key,
                                  valid |-> PyBool(is_valid),
                                  extracted_data |-> extracted_data.v,
                                  retry_count |-> retry_count.v]))

\* The except body reading event["bucket"] and event["key"] instead of
\* event.get(...).
ExtractorExceptSubscript(event, e) ==
    IF "bucket" \notin DOMAIN event THEN Raise("KeyError", "'bucket'")
    ELSE IF "key" \notin DOMAIN event THEN Raise("KeyError", "'key'")
    ELSE LET retry_count == RetryCountPlusOne(event) IN
         IF ~retry_count.ok THEN retry_count
         ELSE Ok(PyDict([bucket |-> event["bucket"],
                         key |-> event["key"],
                         valid |-> PyBool(FALSE),
                         extracted_data |-> PyDict(EmptyDict),
                         retry_count |-> retry_count.v,
                         error |-> PyStr(e.msg)]))

\* The except body returning a retry_count of 1 whatever the event carries.
ExtractorExceptResetsCount(event, e) ==
    Ok(PyDict([bucket |-> DictGet(event, "bucket", PyNone),
               key |-> DictGet(event, "key", PyNone),
               valid |-> PyBool(FALSE),
               extracted_data |-> PyDict(EmptyDict),
               retry_count |-> PyInt(1),
               error |-> PyStr(e.msg)]))

\* The except body of extractor handler (lines 104-117); e is what was raised.
ExtractorExcept(event, e) ==
    LET retry_count == RetryCountPlusOne(event) IN
    IF ~retry_count.ok THEN retry_count
    ELSE Ok(PyDict([bucket |-> DictGet(event, "bucket", PyNone),
                    key |-> DictGet(event, "key", PyNone),
                    valid |-> PyBool(FALSE),
                    extracted_data |-> PyDict(EmptyDict),
                    retry_count |-> retry_count.v,
                    error |-> PyStr(e.msg)]))

\* extractor handler(event, context): what it returns, or what it raises.
ExtractorHandler(event, s3, llm) ==
    LET body == ExtractorTry(event, s3, llm) IN
    IF body.ok THEN body
    ELSE IF IsException(body.exc) THEN ExtractorExcept(event, body)
    ELSE body

\* ------------------------------------------------------- validator handler
\* v[k] on a Python value.
Subscript(v, k) ==
    IF ~v.ok THEN v
    ELSE IF v.v.t # "dict" THEN Raise("TypeError", "object is not subscriptable")
    ELSE IF k \notin DOMAIN v.v.d THEN Raise("KeyError", "'" \o k \o "'")
    ELSE Ok(v.v.d[k])

\* event["Records"][0]
FirstRecord(event) ==
    LET records == event["Records"] IN
    IF records.t # "list" THEN Raise("TypeError", "object is not subscriptable")
    ELSE IF Len(records.l) = 0 THEN Raise("IndexError", "list index out of range")
    ELSE Ok(records.l[1])

\* Lines 87-98 of validator handler: the bucket and key of the event, from
\* Records[0] of an S3 event or from the top level of a Step Functions input.
ValidatorLocate(event) ==
    LET s3_event == FirstRecord(event)
        bucket == IF "Records" \in DOMAIN event
                  THEN Subscript(Subscript(Subscript(s3_event, "s3"), "bucket"), "name")
                  ELSE Ok(DictGet(event, "bucket", PyNone))
        key == IF "Records" \in DOMAIN event
               THEN Subscript(Subscript(Subscript(s3_event, "s3"), "object"), "key")
               ELSE Ok(DictGet(event, "key", PyNone))
    IN  IF ~bucket.ok THEN bucket
        ELSE IF ~key.ok THEN key
        ELSE IF ~Truthy(bucket.v) \/ ~Truthy(key.v)
        THEN Raise("ValueError", "Missing bucket or key in event")
        ELSE Ok([bucket |-> bucket.v, key |-> key.v])

\* The try body of validator handler (lines 84-108).
ValidatorTry(event, s3, llm) ==
    LET ref == ValidatorLocate(event) IN
    IF ~ref.ok THEN ref
    ELSE
      LET file_content == GetObjectAndRead(s3, ref.v.bucket, ref.v.key) IN
      IF ~file_content.ok THEN file_content
      ELSE
        LET validation_result == ValidateBankStatement(llm) IN
        IF ~validation_result.ok THEN validation_result
        ELSE Ok(PyDict([bucket |-> ref.v.bucket,
                        key |-> ref.v.key,
                        valid |-> validation_result.v]))

\* The except body of validator handler (lines 110-118).
ValidatorExcept(e) ==
    Ok(PyDict([statusCode |-> PyInt(500),
               error |-> PyStr("An exception occurred in the input_validator Lambda: "
                               \o e.msg)]))

\* validator handler(event, context): what it returns, or what it raises.
ValidatorHandler(event, s3, llm) ==
    LET body == ValidatorTry(event, s3, llm) IN
    IF body.ok THEN body
    ELSE IF IsException(body.exc) THEN ValidatorExcept(body)
    ELSE body

\* ------------------------------------------------------------------- inputs
\* Step Functions inputs {bucket?, key?, retry_count?}: each key absent,
\* well-formed or malformed.
Buckets == {Absent, PyStr("statements"), PyStr(""), PyNone}
Keys == {Absent, PyStr("jan.pdf"), PyNone}
RetryCounts == {Absent, PyNone, PyStr("1")} \cup {PyInt(n) : n \in 0..MaxRetry}
StepEvents ==
    {Entry("bucket", b) @@ Entry("key", k) @@ Entry("retry_count", r) :
        b \in Buckets, k \in Keys, r \in RetryCounts}

\* S3 PutObject notifications {Records: [...]}.
S3Record(b, k) ==
    PyDict([s3 |-> PyDict([bucket |-> PyDict([name |-> b]),
                           object |-> PyDict([key |-> k])])])
RecordsValues ==
    {PyList(<<>>),
     PyList(<<S3Record(PyStr("uploads"), PyStr("feb.pdf"))>>),
     PyList(<<S3Record(PyStr("uploads"), PyStr("feb.pdf")),
              S3Record(PyStr("uploads"), PyStr("mar.pdf"))>>),
     PyList(<<S3Record(PyStr("uploads"), PyStr(""))>>),
     PyList(<<PyDict(EmptyDict)>>),
     PyNone}
RecordEvents ==
    {("Records" :> r) @@ top : r \in RecordsValues,
        top \in {EmptyDict, [bucket |-> PyStr("statements"), key |-> PyStr("jan.pdf")]}}

Events == StepEvents \cup RecordEvents

\* What the object store does with the read.
Docs == {"pdf-bytes"}
S3Faults == {"none", "NoSuchKey", "EndpointConnectionError", "ReadTimeoutError"}
S3Outcomes == [fault : S3Faults, doc : Docs]

\* The members of a complete extraction response.
FullRecord ==
    [BankName |-> PyStr("Chase"), AccountNumber |-> PyStr("000-123"),
     OpeningBalance |-> PyInt(100), ClosingBalance |-> PyFloat(250),
     StartDate |-> PyStr("2024-01-01"), EndDate |-> PyStr("2024-01-31")]
Without(d, f) == [k \in DOMAIN d \ {f} |-> d[k]]
\* Values a response may give a field, well-typed or not.
FieldValues == {PyNone, PyInt(7), PyStr("100"), PyStr("n/a")}
ClassifyValues ==
    {PyNone, PyBool(TRUE), PyBool(FALSE), PyInt(0), PyInt(1), PyInt(5),
     PyStr("yes"), PyStr("no"), PyStr("maybe")}
ParserMembers ==
    {FullRecord, Without(FullRecord, "ClosingBalance"),
     [is_bank_statement |-> PyBool(TRUE)], [is_bank_statement |-> PyBool(FALSE)],
     [note |-> PyStr("unreadable scan")]}
AllMembers ==
    ParserMembers
    \cup {Without(FullRecord, f) : f \in DOMAIN FullRecord}
    \cup {[FullRecord EXCEPT ![f] = v] : f \in DOMAIN FullRecord, v \in FieldValues}
    \cup {[is_bank_statement |-> v] : v \in ClassifyValues}
    \cup {FullRecord @@ [is_bank_statement |-> PyBool(TRUE)]}

\* What the inference agent does with the request.
LlmRaise(exc) == [kind |-> "raise", exc |-> exc, text |-> <<>>, members |-> EmptyDict]
LlmText(text, members) == [kind |-> "text", exc |-> "", text |-> text, members |-> members]
LlmFaults == {"ModelThrottledException", "ReadTimeoutError"}
Texts == UNION {[1..n -> Token] : n \in 0..MaxLen}
HasToken(text, tok) == \E i \in 1..Len(text) : text[i] = tok
\* Every stage outcome on a well-delimited response, every fault, over all events.
EnvelopeLlm ==
    {LlmRaise(e) : e \in LlmFaults}
    \cup {LlmText(<<LBrace, Members, RBrace>>, m) : m \in AllMembers}
    \cup {LlmText(<<>>, EmptyDict), LlmText(<<Noise>>, EmptyDict),
          LlmText(<<LBrace, RBrace>>, EmptyDict)}
\* Every response text up to MaxLen tokens, on a readable document.
ParserLlm ==
    {LlmText(t[1], t[2]) :
        t \in {x \in Texts \X ParserMembers :
                  HasToken(x[1], Members) \/ x[2] = FullRecord}}
ParserEvents ==
    {[bucket |-> PyStr("statements"), key |-> PyStr("jan.pdf")],
     [bucket |-> PyStr("statements"), key |-> PyStr("jan.pdf"), retry_count |-> PyInt(1)]}

\* -------------------------------------------------------------------- state
VARIABLES
    pc,      \* "ready": the invocation's inputs are fixed; "done": the handler returned or raised
    stage,   \* which handler was invoked: "none", "validator", "extractor"
    event,   \* the handler's event argument
    s3,      \* what the object store answers
    llm,     \* what the inference agent answers
    out,     \* Ok(returned dict) or Raise(exception) once done
    pstate,  \* the orchestrator's pipeline state for the document
    attempts,\* how many times the extractor has been invoked for the document
    ceiling, \* the orchestrator's retry ceiling
    proc,    \* one Lambda process: its module-level agent and the invocations running in it
    tool,    \* one call of the log_unanswered_question tool
    table,   \* the DynamoDB table of the admin stack
    upd,     \* one invocation of the status_updater handler
    bus,     \* the EventBridge rule of the admin stack and what it delivered
    calls    \* the outbound calls one stage invocation has made, in order

stageVars == <<pc, stage, event, s3, llm, out>>
orchVars == <<pstate, attempts, ceiling>>
adminVars == <<tool, table, upd, bus>>
vars == <<stageVars, orchVars, proc, adminVars, calls>>

NotInvoked == Raise("", "")

\* The parts of the state a specification does not use stay at these values.
NoOrchestrator == pstate = "-" /\ attempts = 0 /\ ceiling = 0
NoProcess == proc = "-"
NoAdmin == tool = "-" /\ table = "-" /\ upd = "-" /\ bus = "-"

Init ==
    /\ calls = <<>>
    /\ NoOrchestrator /\ NoProcess /\ NoAdmin
    /\ pc = "ready"
    /\ stage = "none"
    /\ out = NotInvoked
    /\ \/ event \in Events /\ s3 \in S3Outcomes /\ llm \in EnvelopeLlm
       \/ event \in ParserEvents /\ s3 \in [fault : {"none"}, doc : Docs] /\ llm \in ParserLlm

\* One invocation of the extractor Lambda.
InvokeExtractor ==
    /\ pc = "ready"
    /\ pc' = "done"
    /\ stage' = "extractor"
    /\ out' = ExtractorHandler(event, s3, llm)
    /\ UNCHANGED <<calls, event, s3, llm, orchVars, proc, adminVars>>

\* One invocation of the input_validator Lambda.
InvokeValidator ==
    /\ pc = "ready"
    /\ pc' = "done"
    /\ stage' = "validator"
    /\ out' = ValidatorHandler(event, s3, llm)
    /\ UNCHANGED <<calls, event, s3, llm, orchVars, proc, adminVars>>

Next == InvokeExtractor \/ InvokeValidator

Spec == Init /\ [][Next]_vars

TypeOK ==
    /\ pc \in {"ready", "done"}
    /\ stage \in {"none", "validator", "extractor"}
    /\ (pc = "done") = (stage # "none")
    /\ out.ok => out.v.t = "dict"

\* ------------------------------------------------------- claim vocabulary
Done(st) == pc = "done" /\ stage = st
Result == out.v.d
ReturnedDict == out.ok /\ out.v.t = "dict"

\* The invocation envelope's retry_count: absent or an integer.
RetryCountWellFormed ==
    "retry_count" \notin DOMAIN event \/ event["retry_count"].t = "int"
InputRetryCount ==
    IF "retry_count" \in DOMAIN event THEN event["retry_count"].n ELSE 0

IsLocator(v) == v.t = "str" /\ v.s # ""
\* The event names a document and the object store returns its bytes.
ExtractorReadSucceeds ==
    /\ "bucket" \in DOMAIN event /\ IsLocator(event["bucket"])
    /\ "key" \in DOMAIN event /\ IsLocator(event["key"])
    /\ s3.fault = "none"
RecordsWellFormed ==
    /\ event["Records"].t = "list"
    /\ Len(event["Records"].l) > 0
    /\ "s3" \in DOMAIN event["Records"].l[1].d
InputBucket ==
    IF "Records" \in DOMAIN event
    THEN event["Records"].l[1].d["s3"].d["bucket"].d["name"]
    ELSE event["bucket"]
InputKey ==
    IF "Records" \in DOMAIN event
    THEN event["Records"].l[1].d["s3"].d["object"].d["key"]
    ELSE event["key"]
ValidatorReadSucceeds ==
    /\ IF "Records" \in DOMAIN event THEN RecordsWellFormed
       ELSE "bucket" \in DOMAIN event /\ "key" \in DOMAIN event
    /\ IsLocator(InputBucket)
    /\ IsLocator(InputKey)
    /\ s3.fault = "none"

\* text[i..j] runs from the first "{" of the text to its last "}".
Delimits(text, i, j) ==
    /\ i < j
    /\ text[i] = LBrace /\ \A k \in 1..(i - 1) : text[k] # LBrace
    /\ text[j] = RBrace /\ \A k \in (j + 1)..Len(text) : text[k] # RBrace
IsJsonObject(s) == s = <<LBrace, RBrace>> \/ s = <<LBrace, Members, RBrace>>
\* The response is text whose first "{" to last "}" is a JSON object.
IsolatesObject ==
    /\ llm.kind = "text"
    /\ \E i, j \in 1..Len(llm.text) :
          Delimits(llm.text, i, j) /\ IsJsonObject(SubSeq(llm.text, i, j))
\* The key-value pairs of that object.
Payload ==
    IF \E i \in 1..(Len(llm.text) - 2) : Delimits(llm.text, i, i + 2)
    THEN llm.members ELSE EmptyDict
\* No "{" of the text is followed later by a "}".
NoBracePair(text) ==
    ~ \E i, j \in 1..Len(text) : i < j /\ text[i] = LBrace /\ text[j] = RBrace

ExtractorFields ==
    {"BankName", "AccountNumber", "OpeningBalance", "ClosingBalance",
     "StartDate", "EndDate"}

\* ------------------------------------------------------------------ claims
\* C1: the extractor handler never raises. For every event whose retry_count
\* is absent or an integer (bucket and key present or missing), and for every
\* outcome of the object-store read and of the inference call, the handler
\* returns a dict that holds a boolean `valid`.
C1_ExtractorNeverRaises ==
    (Done("extractor") /\ RetryCountWellFormed) =>
        /\ ReturnedDict
        /\ "valid" \in DOMAIN Result
        /\ Result["valid"].t = "bool"

\* The handler's except path was taken for an event without a bucket.
C1_Witness ==
    /\ Done("extractor")
    /\ "bucket" \notin DOMAIN event
    /\ "retry_count" \notin DOMAIN event
    /\ ReturnedDict
    /\ Result["valid"] = PyBool(FALSE)
    /\ "error" \in DOMAIN Result

\* C2: monotonicity. Every extractor invocation on a well-formed retry_count
\* returns, on the success path and on every failure path, with
\* retry_count = input retry_count + 1, an absent retry_count counting as 0.
C2_RetryCountIncremented ==
    (Done("extractor") /\ RetryCountWellFormed) =>
        /\ ReturnedDict
        /\ "retry_count" \in DOMAIN Result
        /\ Result["retry_count"] = PyInt(InputRetryCount + 1)

\* A failed attempt on an event that carried retry_count = 1 reports 2.
C2_Witness ==
    /\ Done("extractor")
    /\ "retry_count" \in DOMAIN event /\ event["retry_count"] = PyInt(1)
    /\ llm.kind = "raise"
    /\ ExtractorReadSucceeds
    /\ ReturnedDict
    /\ Result["valid"] = PyBool(FALSE)
    /\ Result["retry_count"] = PyInt(2)

\* C3: extractor result invariant. In every returned result, valid = False
\* implies extracted_data is the empty dict, and valid = True implies
\* extracted_data is a record of exactly the six fields.
C3_ResultInvariant ==
    (Done("extractor") /\ ReturnedDict) =>
        /\ Result["valid"] = PyBool(FALSE) =>
              Result["extracted_data"] = PyDict(EmptyDict)
        /\ Result["valid"] = PyBool(TRUE) =>
              /\ Result["extracted_data"].t = "dict"
              /\ DOMAIN Result["extracted_data"].d = ExtractorFields
        /\ Result["valid"] \in {PyBool(FALSE), PyBool(TRUE)}

\* A complete record was extracted from a response with text around it.
C3_Witness ==
    /\ Done("extractor")
    /\ ReturnedDict
    /\ Result["valid"] = PyBool(TRUE)
    /\ DOMAIN Result["extracted_data"].d = ExtractorFields
    /\ HasToken(llm.text, Noise)

\* The extraction failed: the object store did not deliver the document, or
\* the inference call raised, or its text holds no JSON object, or the
\* object fails the schema.
ExtractionFailed ==
    \/ ~ExtractorReadSucceeds
    \/ llm.kind = "raise"
    \/ ~IsolatesObject
    \/ ~ModelValidate(BankStatementData, Payload).ok

\* C4: on any extractor failure (object-store fault, inference fault, no
\* JSON object in the text, JSON failing the schema) the returned result has
\* valid = False, extracted_data = {}, retry_count = input + 1 and a
\* populated error message.
C4_FailureCarriesError ==
    (Done("extractor") /\ RetryCountWellFormed /\ ExtractionFailed) =>
        /\ ReturnedDict
        /\ Result["valid"] = PyBool(FALSE)
        /\ Result["extracted_data"] = PyDict(EmptyDict)
        /\ Result["retry_count"] = PyInt(InputRetryCount + 1)
        /\ "error" \in DOMAIN Result
        /\ Result["error"].t = "str"
        /\ Result["error"].s # ""

\* The inference response classifies the document as a bank statement:
\* its isolated object holds an is_bank_statement that validates to True.
ClassifiedTrue ==
    /\ IsolatesObject
    /\ "is_bank_statement" \in DOMAIN Payload
    /\ CoerceBool(Payload["is_bank_statement"]) = Ok(PyBool(TRUE))
\* The inference call raised, or its text cannot be parsed or validated.
InferenceFaulty ==
    \/ llm.kind = "raise"
    \/ ~IsolatesObject
    \/ "is_bank_statement" \notin DOMAIN Payload
    \/ ~CoerceBool(Payload["is_bank_statement"]).ok

\* C5: validator fail-closed on inference faults. When the object-store read
\* succeeds and the inference call raises, times out or returns text that
\* cannot be parsed or validated, the validator returns exactly the input
\* bucket and key with valid = False; and it returns valid = True only when
\* the response parsed and validated to is_bank_statement = True.
C5_ValidatorFailClosed ==
    Done("validator") =>
        /\ (ValidatorReadSucceeds /\ InferenceFaulty) =>
              /\ ReturnedDict
              /\ Result = [bucket |-> InputBucket, key |-> InputKey,
                           valid |-> PyBool(FALSE)]
        /\ (ReturnedDict /\ "valid" \in DOMAIN Result /\ Result["valid"] # PyBool(FALSE)) =>
              /\ ValidatorReadSucceeds
              /\ ClassifiedTrue
              /\ Result["valid"] = PyBool(TRUE)

\* The inference call timed out on a document that was read, and the
\* validator answered valid = False.
C5_Witness ==
    /\ Done("validator")
    /\ ValidatorReadSucceeds
    /\ llm.kind = "raise" /\ llm.exc = "ReadTimeoutError"
    /\ ReturnedDict
    /\ Result["valid"] = PyBool(FALSE)

\* A fault was caught at the validator's stage boundary: the event names no
\* document, or the object store failed.
ValidatorBoundaryFault == ~ValidatorReadSucceeds

\* C6: every fault caught at the validator's stage boundary, an object-store
\* failure or a missing bucket or key included, is returned as a result that
\* carries valid = False.
C6_BoundaryFaultCarriesValid ==
    (Done("validator") /\ ValidatorBoundaryFault) =>
        /\ ReturnedDict
        /\ "valid" \in DOMAIN Result
        /\ Result["valid"] = PyBool(FALSE)

\* C7: the validator handler never raises. For every event (S3 Records form,
\* Step Functions form, or neither) and every outcome of the read and of the
\* inference call, the handler returns a dict.
C7_ValidatorNeverRaises ==
    Done("validator") => ReturnedDict

\* An S3 event with an empty Records list (an IndexError inside the try body)
\* still produced a returned dict.
C7_Witness ==
    /\ Done("validator")
    /\ "Records" \in DOMAIN event
    /\ event["Records"] = PyList(<<>>)
    /\ ReturnedDict

\* C8: for every response text in which no "{" is followed later by a "}",
\* parsing fails and the stage that made the inference call returns
\* valid = False: the validator valid = False, the extractor valid = False
\* with empty data. (Events are those of the invocation envelope: a document
\* that was read, retry_count absent or an int.)
C8_NoBracePairFails ==
    (pc = "done" /\ llm.kind = "text" /\ NoBracePair(llm.text)) =>
        /\ (stage = "validator" /\ ValidatorReadSucceeds) =>
              /\ ReturnedDict
              /\ Result["valid"] = PyBool(FALSE)
        /\ (stage = "extractor" /\ ExtractorReadSucceeds /\ RetryCountWellFormed) =>
              /\ ReturnedDict
              /\ Result["valid"] = PyBool(FALSE)
              /\ Result["extracted_data"] = PyDict(EmptyDict)

\* The text holds both braces, every "}" before the first "{", and the
\* extractor answered valid = False.
C8_Witness ==
    /\ Done("extractor")
    /\ ExtractorReadSucceeds
    /\ llm.kind = "text"
    /\ NoBracePair(llm.text)
    /\ HasToken(llm.text, LBrace)
    /\ HasToken(llm.text, RBrace)
    /\ ReturnedDict
    /\ Result["valid"] = PyBool(FALSE)

\* C9: schema validation is all-or-nothing. Whenever the sliced substring is
\* a JSON object that lacks a required field, the extractor returns
\* valid = False with empty data (never the fields that were present), and
\* the validator returns valid = False when is_bank_statement is missing.
C9_MissingFieldFails ==
    (pc = "done" /\ IsolatesObject) =>
        /\ (/\ stage = "extractor"
            /\ ExtractorReadSucceeds /\ RetryCountWellFormed
            /\ ExtractorFields \ DOMAIN Payload # {}) =>
              /\ ReturnedDict
              /\ Result["valid"] = PyBool(FALSE)
              /\ Result["extracted_data"] = PyDict(EmptyDict)
        /\ (/\ stage = "validator"
            /\ ValidatorReadSucceeds
            /\ "is_bank_statement" \notin DOMAIN Payload) =>
              /\ ReturnedDict
              /\ Result["valid"] = PyBool(FALSE)

\* The response was a JSON object with every field but ClosingBalance, and
\* the extractor returned empty data.
C9_Witness ==
    /\ Done("extractor")
    /\ ExtractorReadSucceeds
    /\ IsolatesObject
    /\ DOMAIN Payload = ExtractorFields \ {"ClosingBalance"}
    /\ ReturnedDict
    /\ Result["extracted_data"] = PyDict(EmptyDict)

\* The handler of the stage that ran, on the same event and object store
\* but with the inference response text replaced by `text`.
StageOutcomeOn(text) ==
    IF stage = "extractor"
    THEN ExtractorHandler(event, s3, LlmText(text, llm.members))
    ELSE ValidatorHandler(event, s3, LlmText(text, llm.members))

\* C10: noise tolerance. For every response text prefix + J + suffix where J
\* is a JSON object, prefix holds no "{" and suffix holds no "}", the stage
\* result equals its result on the text J alone.
C10_NoiseTolerance ==
    (pc = "done" /\ llm.kind = "text") =>
        \A i, j \in 1..Len(llm.text) :
            (Delimits(llm.text, i, j) /\ IsJsonObject(SubSeq(llm.text, i, j))) =>
                out = StageOutcomeOn(SubSeq(llm.text, i, j))

\* Commentary before and after {"is_bank_statement": false}: the validator
\* answered valid = False.
C10_Witness ==
    /\ Done("validator")
    /\ ValidatorReadSucceeds
    /\ llm.kind = "text"
    /\ llm.text = <<Noise, LBrace, Members, RBrace, Noise>>
    /\ llm.members = [is_bank_statement |-> PyBool(FALSE)]
    /\ ReturnedDict
    /\ Result["valid"] = PyBool(FALSE)

\* A JSON value has the JSON type the schema declares for the field.
HasDeclaredType(v, type) ==
    CASE type = "bool" -> v.t = "bool"
      [] type = "str" -> v.t = "str"
      [] type = "float" -> v.t \in {"int", "float"}
AllDeclaredTypes(schema, d) ==
    \A f \in DOMAIN schema : f \in DOMAIN d /\ HasDeclaredType(d[f], schema[f])

\* C11: wrong-typed fields are rejected. A stage reports valid = True only
\* when every required field of the isolated object has its declared JSON
\* type; the validator only when is_bank_statement is the JSON boolean true,
\* never for a string such as "yes" or the number 1.
C11_WrongTypeRejected ==
    (pc = "done" /\ ReturnedDict /\ "valid" \in DOMAIN Result
        /\ Result["valid"] = PyBool(TRUE)) =>
        /\ stage = "validator" =>
              /\ AllDeclaredTypes(ValidationResult, Payload)
              /\ Payload["is_bank_statement"] = PyBool(TRUE)
        /\ stage = "extractor" => AllDeclaredTypes(BankStatementData, Payload)

\* The event names a document: a bucket and a key are present in it.
EventNamesDocument ==
    IF stage = "validator" /\ "Records" \in DOMAIN event THEN RecordsWellFormed
    ELSE "bucket" \in DOMAIN event /\ "key" \in DOMAIN event
EventBucket == IF stage = "validator" THEN InputBucket ELSE event["bucket"]
EventKey == IF stage = "validator" THEN InputKey ELSE event["key"]

\* C13: DocumentRef pass-through. On every return path of both stages,
\* success and failure, the result's bucket and key are those of the input
\* event (of Records[0] for the validator's S3-event form).
C13_DocumentRefPassThrough ==
    (pc = "done" /\ EventNamesDocument /\ ReturnedDict) =>
        /\ "bucket" \in DOMAIN Result /\ Result["bucket"] = EventBucket
        /\ "key" \in DOMAIN Result /\ Result["key"] = EventKey

\* =========================================================================
\* week8/1-admin-ui: the log_unanswered_question tool (twin/backend tools.py)
\* =========================================================================
\* What QuestionManager() and add_question(...) do: each returns or raises.
QmFaults == {"ValueError", "ClientError"}
QmOutcomes ==
    {[ctor |-> c, add |-> a] :
        c \in {"ok"} \cup QmFaults, a \in {"ok"} \cup QmFaults}
QmCompleted(qm) == qm.ctor = "ok" /\ qm.add = "ok"
\* The exception the try body raises, if any: the constructor's, else add_question's.
QmRaised(qm) == IF qm.ctor # "ok" THEN qm.ctor ELSE qm.add

\* An f-string is the sequence of its literal and interpolated pieces.
ConfirmationMessage(name) == <<"Successfully logged question from ", name, ".">>
ErrorMessage(e) == <<"Failed to log unanswered question.", " Error: ", e>>

\* log_unanswered_question with QuestionManager() constructed before the try.
LogUnansweredCtorOutsideTry(question, name, email, qm) ==
    IF qm.ctor # "ok" THEN Raise(qm.ctor, "QuestionManager() failed")
    ELSE IF qm.add = "ok" THEN Ok(ConfirmationMessage(name))
    ELSE Ok(ErrorMessage(qm.add))

\* log_unanswered_question(question, name, email): the returned str, or
\* what it raises.
LogUnansweredQuestion(question, name, email, qm) ==
    IF QmCompleted(qm) THEN Ok(ConfirmationMessage(name))
    ELSE IF IsException(QmRaised(qm)) THEN Ok(ErrorMessage(QmRaised(qm)))
    ELSE Raise(QmRaised(qm), "")

Questions == {"What is your rate?", "Where are you based?", ""}
UserNames == {"Ana", "Bo", ""}
UserEmails == {"ana@example.com", ""}

InitTool ==
    /\ calls = <<>>
    /\ pc = "-" /\ stage = "-" /\ event = "-" /\ s3 = "-" /\ llm = "-" /\ out = "-"
    /\ NoOrchestrator /\ NoProcess
    /\ table = "-" /\ upd = "-" /\ bus = "-"
    /\ tool \in [pc : {"ready"}, question : Questions, name : UserNames,
                 email : UserEmails, qm : QmOutcomes, ret : {NotInvoked}]

\* The agent calls the tool once.
CallLogUnansweredQuestion ==
    /\ tool.pc = "ready"
    /\ tool' = [tool EXCEPT
                  !.pc = "done",
                  !.ret = LogUnansweredQuestion(tool.question, tool.name,
                                                tool.email, tool.qm)]
    /\ UNCHANGED <<calls, stageVars, orchVars, proc, table, upd, bus>>

NextTool == CallLogUnansweredQuestion

SpecTool == InitTool /\ [][NextTool]_vars

\* C18: log_unanswered_question never raises and reports truthfully. It
\* returns 'Successfully logged question from <name>.' exactly when
\* QuestionManager() and add_question completed without an exception; on any
\* exception it returns a message that starts with
\* 'Failed to log unanswered question.' and raises nothing.
C18_ToolReportsTruthfully ==
    tool.pc = "done" =>
        /\ tool.ret.ok
        /\ (tool.ret.v = <<"Successfully logged question from ", tool.name, ".">>)
              <=> (tool.qm.ctor = "ok" /\ tool.qm.add = "ok")
        /\ ~(tool.qm.ctor = "ok" /\ tool.qm.add = "ok") =>
              tool.ret.v[1] = "Failed to log unanswered question."

\* QuestionManager() itself raised and the tool returned the failure message.
C18_Witness ==
    /\ tool.pc = "done"
    /\ tool.qm.ctor = "ValueError"
    /\ tool.ret.ok
    /\ tool.ret.v[1] = "Failed to log unanswered question."

\* =========================================================================
\* Chaining: an orchestrator feeds each extractor result back as the next input
\* =========================================================================
\* The first input of a chain names the document and carries no retry_count.
ChainStartEvents == {Entry("bucket", b) @@ Entry("key", k) : b \in Buckets, k \in Keys}
\* What inference does on one attempt: a fault, a complete record, a record
\* with a field missing, a response without an object.
ChainLlm ==
    {LlmRaise("ModelThrottledException"),
     LlmText(<<LBrace, Members, RBrace>>, FullRecord),
     LlmText(<<Noise, LBrace, Members, RBrace>>, Without(FullRecord, "ClosingBalance")),
     LlmText(<<Noise>>, EmptyDict)}

InitChain ==
    /\ calls = <<>>
    /\ pc = "ready" /\ stage = "extractor" /\ out = NotInvoked
    /\ event \in ChainStartEvents /\ s3 \in S3Outcomes /\ llm \in ChainLlm
    /\ pstate = "-" /\ attempts = 0 /\ ceiling = 0
    /\ NoProcess /\ NoAdmin

\* The n-th invocation of the extractor handler for the document.
ChainInvoke ==
    /\ pc = "ready"
    /\ out' = ExtractorHandler(event, s3, llm)
    /\ attempts' = attempts + 1
    /\ pc' = "done"
    /\ UNCHANGED <<calls, stage, event, s3, llm, pstate, ceiling, proc, adminVars>>

\* The orchestrator passes the returned dict as the next input; the store
\* and the inference service answer the next attempt as they will.
ChainFeedBack ==
    /\ pc = "done" /\ out.ok /\ out.v.t = "dict"
    /\ attempts < MaxAttempts
    /\ event' = out.v.d
    /\ s3' \in S3Outcomes
    /\ llm' \in ChainLlm
    /\ pc' = "ready"
    /\ UNCHANGED <<calls, stage, out, orchVars, proc, adminVars>>

NextChain == ChainInvoke \/ ChainFeedBack

SpecChain == InitChain /\ [][NextChain]_vars

\* C15: under chaining the attempt counter is accurate. Every extractor
\* result carries bucket, key and retry_count, so it is an extractor input;
\* starting from an event without retry_count and feeding each result back,
\* the n-th invocation returns retry_count = n, whether the attempts
\* succeeded or failed.
C15_ChainedCountIsAttempt ==
    pc = "done" =>
        /\ out.ok /\ out.v.t = "dict"
        /\ {"bucket", "key", "retry_count"} \subseteq DOMAIN out.v.d
        /\ out.v.d["retry_count"] = PyInt(attempts)

\* The last attempt of a full chain succeeded after an earlier one failed.
C15_Witness ==
    /\ pc = "done"
    /\ attempts = MaxAttempts
    /\ "error" \in DOMAIN event
    /\ out.ok
    /\ out.v.d["valid"] = PyBool(TRUE)
    /\ out.v.d["retry_count"] = PyInt(MaxAttempts)

\* =========================================================================
\* The pipeline contract: an orchestrator sequencing the two stages
\* =========================================================================
(* The orchestrator is external to the handlers.  Its state machine is      *)
(* PENDING -> VALIDATING -> (INVALID | VALIDATED) -> EXTRACTING ->          *)
(* (EXTRACTED | EXTRACTION_FAILED); it passes each stage's returned dict as *)
(* the next stage's input.  The stages it invokes are the two handlers.     *)
PipelineStates ==
    {"PENDING", "VALIDATING", "INVALID", "VALIDATED", "EXTRACTING",
     "EXTRACTED", "EXTRACTION_FAILED", "FAILED"}
TerminalStates == {"INVALID", "EXTRACTED", "FAILED"}

\* What inference answers the validator: a fault, a positive, a negative.
ClassifyLlm ==
    {LlmRaise("ModelThrottledException"),
     LlmText(<<LBrace, Members, RBrace>>, [is_bank_statement |-> PyBool(TRUE)]),
     LlmText(<<LBrace, Members, RBrace>>, [is_bank_statement |-> PyBool(FALSE)])}

\* The orchestrator's branch on a stage result: the valid flag of a returned dict.
ReportsValid(r) ==
    /\ r.ok /\ r.v.t = "dict"
    /\ "valid" \in DOMAIN r.v.d
    /\ Truthy(r.v.d["valid"])
\* The loop counter the orchestrator reads from the extractor result.
RetryAllowed(r, n) ==
    /\ r.ok /\ r.v.t = "dict"
    /\ "retry_count" \in DOMAIN r.v.d
    /\ r.v.d["retry_count"].t = "int"
    /\ r.v.d["retry_count"].n < n

InitOrchestrator ==
    /\ calls = <<>>
    /\ pc = "-" /\ stage = "none" /\ out = NotInvoked
    /\ event \in ChainStartEvents
    /\ s3 \in [fault : {"none"}, doc : Docs]
    /\ llm \in {LlmText(<<>>, EmptyDict)}
    /\ pstate = "PENDING" /\ attempts = 0
    /\ NoProcess /\ NoAdmin

Start ==
    /\ pstate = "PENDING"
    /\ pstate' = "VALIDATING"
    /\ UNCHANGED <<calls, stageVars, attempts, ceiling, proc, adminVars>>

\* VALIDATING: one invocation of the validator handler on the current input.
Validate ==
    /\ pstate = "VALIDATING"
    /\ \E s \in S3Outcomes, l \in ClassifyLlm :
          LET r == ValidatorHandler(event, s, l) IN
          /\ s3' = s /\ llm' = l /\ out' = r
          /\ pstate' = IF ReportsValid(r) THEN "VALIDATED" ELSE "INVALID"
    /\ stage' = "validator"
    /\ UNCHANGED <<calls, pc, event, attempts, ceiling, proc, adminVars>>

\* VALIDATED: the validator's result becomes the extractor's input.
BeginExtract ==
    /\ pstate = "VALIDATED"
    /\ event' = out.v.d
    /\ pstate' = "EXTRACTING"
    /\ UNCHANGED <<calls, pc, stage, s3, llm, out, attempts, ceiling, proc, adminVars>>

\* EXTRACTING: one invocation of the extractor handler on the current input.
\* The count of invocations is capped just above the largest ceiling.
Extract ==
    /\ pstate = "EXTRACTING"
    /\ attempts <= MaxCeiling
    /\ \E s \in S3Outcomes, l \in ChainLlm :
          LET r == ExtractorHandler(event, s, l) IN
          /\ s3' = s /\ llm' = l /\ out' = r
          /\ pstate' = IF ReportsValid(r) THEN "EXTRACTED" ELSE "EXTRACTION_FAILED"
    /\ attempts' = attempts + 1
    /\ stage' = "extractor"
    /\ UNCHANGED <<calls, pc, event, ceiling, proc, adminVars>>

\* EXTRACTION_FAILED -> EXTRACTING while the returned retry_count is below
\* the ceiling: the extractor's result is its next input.
RetryExtract ==
    /\ pstate = "EXTRACTION_FAILED"
    /\ RetryAllowed(out, ceiling)
    /\ event' = out.v.d
    /\ pstate' = "EXTRACTING"
    /\ UNCHANGED <<calls, pc, stage, s3, llm, out, attempts, ceiling, proc, adminVars>>

\* EXTRACTION_FAILED -> FAILED once the ceiling is reached.
GiveUp ==
    /\ pstate = "EXTRACTION_FAILED"
    /\ ~RetryAllowed(out, ceiling)
    /\ pstate' = "FAILED"
    /\ UNCHANGED <<calls, stageVars, attempts, ceiling, proc, adminVars>>

\* EXTRACTION_FAILED -> VALIDATING: the whole pipeline is retried, the
\* extractor's result going to the validator.
RetryPipeline ==
    /\ pstate = "EXTRACTION_FAILED"
    /\ attempts < MaxAttempts
    /\ out.ok /\ out.v.t = "dict"
    /\ event' = out.v.d
    /\ pstate' = "VALIDATING"
    /\ UNCHANGED <<calls, pc, stage, s3, llm, out, attempts, ceiling, proc, adminVars>>

InitRetry == InitOrchestrator /\ ceiling \in 1..MaxCeiling
NextRetry == Start \/ Validate \/ BeginExtract \/ Extract \/ RetryExtract \/ GiveUp
\* The orchestrator keeps stepping its state machine and every stage
\* invocation returns.
SpecRetry == InitRetry /\ [][NextRetry]_vars /\ WF_vars(NextRetry)

InitPipeline == InitOrchestrator /\ ceiling = 0
NextPipeline == Start \/ Validate \/ BeginExtract \/ Extract \/ RetryPipeline
SpecPipeline == InitPipeline /\ [][NextPipeline]_vars

\* C19: across whole-pipeline retries (Extractor result -> Validator ->
\* Extractor) the retry_count the extractor returns equals the number of
\* extraction attempts made so far for the document.
C19_CountAcrossPipelineRetries ==
    (pstate \in {"EXTRACTED", "EXTRACTION_FAILED"} /\ out.ok) =>
        out.v.d["retry_count"] = PyInt(attempts)

\* C20: bounded retry terminates. With any ceiling N >= 1, re-entering
\* EXTRACTING from EXTRACTION_FAILED only while the returned retry_count < N,
\* every run eventually reaches INVALID, EXTRACTED or FAILED, and the
\* extractor is invoked at most N times for the document.
C20_BoundedRetryTerminates ==
    /\ [](attempts <= ceiling)
    /\ <>(pstate \in {"INVALID", "EXTRACTED", "FAILED"})

\* Every allowed attempt failed and the run ended in FAILED after a retry.
C20_Witness ==
    /\ pstate = "FAILED"
    /\ ceiling > 1
    /\ attempts = ceiling
    /\ out.ok
    /\ out.v.d["retry_count"] = PyInt(ceiling)

\* =========================================================================
\* One Lambda process: invocations sharing the module-level agent
\* =========================================================================
(* `agent = Agent(model=model_id, callback_handler=None)` is created once    *)
(* per process (line 11 of both stage modules) and every invocation calls    *)
(* it.  A strands Agent keeps its conversation in agent.messages: a call     *)
(* appends the user message, sends the whole conversation to the model, and  *)
(* appends the model's answer.  Builds of the library that guard the agent   *)
(* with an invocation lock raise ConcurrencyException from a call made while *)
(* another is in flight; builds without the guard run both.                  *)
ProcessKeys == {"jan.pdf", "feb.pdf"}
\* The object store of the process model: each key holds its own document.
StoreDoc(key) == IF key = PyStr("jan.pdf") THEN "jan-bytes" ELSE "feb-bytes"
ProcessEvents ==
    {[bucket |-> PyStr("statements"), key |-> PyStr(k)] @@ Entry("retry_count", rc) :
        k \in ProcessKeys, rc \in {Absent, PyInt(1)}}
Invocations == {1, 2}
Other(i) == IF i = 1 THEN 2 ELSE 1

\* The handler of the stage module the process has loaded.
StageHandler(st, ev, store, answer) ==
    IF st = "extractor" THEN ExtractorHandler(ev, store, answer)
    ELSE ValidatorHandler(ev, store, answer)

\* What the model answers a request: a record, another record, a fault.
StubOutcomes(st) ==
    IF st = "extractor"
    THEN {LlmText(<<LBrace, Members, RBrace>>, FullRecord),
          LlmText(<<LBrace, Members, RBrace>>,
                  [FullRecord EXCEPT !["ClosingBalance"] = PyFloat(300)]),
          LlmRaise("ValidationException")}
    ELSE ClassifyLlm
\* A request is the conversation sent: its latest document, and whether
\* earlier turns precede it.
Requests == {"jan-bytes", "feb-bytes"} \X BOOLEAN
\* A deterministic inference stub: a function of the request it receives.
Stubs(st) == [Requests -> StubOutcomes(st)]

Assistant == "assistant"
\* The latest document among the user turns of the conversation.
RECURSIVE LatestDocument(_)
LatestDocument(messages) ==
    IF messages = <<>> THEN ""
    ELSE IF messages[Len(messages)] # Assistant THEN messages[Len(messages)]
    ELSE LatestDocument(SubSeq(messages, 1, Len(messages) - 1))
RequestOf(messages) == <<LatestDocument(messages), Len(messages) > 1>>
\* The request of an invocation that has the process to itself.
RequestAlone(doc) == <<doc, FALSE>>

StoreOutcome(ev) == [fault |-> "none", doc |-> StoreDoc(DictGet(ev, "key", PyNone))]
InFlight(inv) == inv.pc \in {"calling", "answered"}

InitProcess ==
    /\ calls = <<>>
    /\ pc = "-" /\ stage = "-" /\ event = "-" /\ s3 = "-" /\ llm = "-" /\ out = "-"
    /\ NoOrchestrator /\ NoAdmin
    /\ \E st \in {"extractor", "validator"} :
          proc \in [stage : {st},
                    lock : BOOLEAN,
                    stub : Stubs(st),
                    busy : {FALSE},
                    messages : {<<>>},
                    overlap : {FALSE},
                    inv : [Invocations ->
                             [pc : {"idle"}, event : ProcessEvents,
                              answer : {LlmText(<<>>, EmptyDict)},
                              out : {NotInvoked}]]]


\* Whether the handler gets as far as the agent call: the event names the
\* object and get_object and read succeed.
ReadsDocument(st, ev) ==
    IF st = "extractor"
    THEN /\ {"bucket", "key"} \subseteq DOMAIN ev
         /\ GetObjectAndRead(StoreOutcome(ev), ev["bucket"], ev["key"]).ok
    ELSE LET ref == ValidatorLocate(ev) IN
         /\ ref.ok
         /\ GetObjectAndRead(StoreOutcome(ev), ref.v.bucket, ref.v.key).ok

\* The handler starts: it reads the document and calls the agent, which
\* appends the user message to the conversation (or refuses the call while
\* another is in flight, when the build guards the agent).
ProcBegin(i) ==
    LET inv == proc.inv[i]
        refused == LlmRaise("ConcurrencyException")
    IN
    /\ inv.pc = "idle"
    /\ proc' =
         IF ~ReadsDocument(proc.stage, inv.event)
         THEN [proc EXCEPT
                 !.inv[i].pc = "done",
                 !.inv[i].out = StageHandler(proc.stage, inv.event,
                                             StoreOutcome(inv.event), inv.answer)]
         ELSE IF proc.lock /\ proc.busy
         THEN [proc EXCEPT
                 !.overlap = TRUE,
                 !.inv[i].pc = "done",
                 !.inv[i].answer = refused,
                 !.inv[i].out = StageHandler(proc.stage, inv.event,
                                             StoreOutcome(inv.event), refused)]
         ELSE [proc EXCEPT
                 !.overlap = @ \/ InFlight(proc.inv[Other(i)]),
                 !.busy = TRUE,
                 !.messages = Append(@, StoreOutcome(inv.event).doc),
                 !.inv[i].pc = "calling"]
    /\ UNCHANGED <<calls, stageVars, orchVars, adminVars>>

\* The agent sends the conversation as it stands and the model answers it.
ProcModel(i) ==
    /\ proc.inv[i].pc = "calling"
    /\ proc' = [proc EXCEPT
                  !.inv[i].pc = "answered",
                  !.inv[i].answer = proc.stub[RequestOf(proc.messages)]]
    /\ UNCHANGED <<calls, stageVars, orchVars, adminVars>>

\* The agent appends the answer to the conversation and returns; the
\* handler parses the response and returns its result.
ProcFinish(i) ==
    LET inv == proc.inv[i] IN
    /\ inv.pc = "answered"
    /\ proc' = [proc EXCEPT
                  !.busy = InFlight(proc.inv[Other(i)]),
                  !.messages = IF inv.answer.kind = "text"
                               THEN Append(@, Assistant) ELSE @,
                  !.inv[i].pc = "done",
                  !.inv[i].out = StageHandler(proc.stage, inv.event,
                                              StoreOutcome(inv.event), inv.answer)]
    /\ UNCHANGED <<calls, stageVars, orchVars, adminVars>>

NextProcess == \E i \in Invocations : ProcBegin(i) \/ ProcModel(i) \/ ProcFinish(i)

SpecProcess == InitProcess /\ [][NextProcess]_vars

\* What invocation i returns when it has the process to itself, with the
\* same event, the same object and the same stub.
ResultAlone(i) ==
    StageHandler(proc.stage, proc.inv[i].event, StoreOutcome(proc.inv[i].event),
                 proc.stub[RequestAlone(StoreOutcome(proc.inv[i].event).doc)])

\* C12: extractor idempotence. Two invocations in one process, one after the
\* other, with the same document, the same starting retry_count and a
\* deterministic inference stub return identical extracted_data and
\* identical valid, and each returns retry_count = input.retry_count + 1.
C12_ExtractorIdempotent ==
    (/\ proc.stage = "extractor"
     /\ ~proc.overlap
     /\ proc.inv[1].pc = "done" /\ proc.inv[2].pc = "done"
     /\ proc.inv[1].event = proc.inv[2].event)
    => LET r1 == proc.inv[1].out
           r2 == proc.inv[2].out
           rc == PyInt(DictGet(proc.inv[1].event, "retry_count", PyInt(0)).n + 1)
       IN  /\ r1.ok /\ r2.ok
           /\ r1.v.d["extracted_data"] = r2.v.d["extracted_data"]
           /\ r1.v.d["valid"] = r2.v.d["valid"]
           /\ r1.v.d["retry_count"] = rc
           /\ r2.v.d["retry_count"] = rc

\* C14: statelessness under concurrency. For any interleaving of invocations
\* for different documents in one process, each invocation returns what it
\* would return if run alone with the same input and the same external
\* responses.
C14_ResultAsIfAlone ==
    \A i \in {1, 2} :
        (/\ proc.inv[i].pc = "done"
         /\ proc.inv[1].event["key"] # proc.inv[2].event["key"])
        => proc.inv[i].out = ResultAlone(i)

\* =========================================================================
\* week8/1-admin-ui: the admin table and the status_updater handler
\* =========================================================================
\* The table has partition key PK and sort key SK (infra.py lines 30-34).
\* One more question than a query page holds can be in the table.
MaxItems == PageLimit + 1
SortKey(n) == PyStr("q" \o ToString(n))
ItemKeys == ({"QUESTIONS"} \X (1..MaxItems)) \cup {<<"SETTINGS", 1>>}
\* A question item: answer and processed may each be missing.
QuestionItem(n, a, p) ==
    [PK |-> PyStr("QUESTIONS"), SK |-> SortKey(n), question |-> PyStr("What is your rate?")]
        @@ Entry("answer", a) @@ Entry("processed", p)
\* What a question key holds: nothing (Absent), or an item's answer and processed.
Holdings ==
    {Absent} \cup [answer : {Absent, PyStr(""), PyStr("By the hour.")},
                   processed : {Absent, PyBool(FALSE), PyBool(TRUE)}]
\* An item of another partition that happens to have an answer attribute.
SettingsItem ==
    [PK |-> PyStr("SETTINGS"), SK |-> SortKey(1), answer |-> PyStr("dark mode")]
\* Every content of the table: each key holds an item or nothing (Absent).
Tables ==
    {[k \in ItemKeys |->
        IF k[1] = "SETTINGS" THEN SettingsItem
        ELSE IF h[k[2]] = Absent THEN Absent
        ELSE QuestionItem(k[2], h[k[2]].answer, h[k[2]].processed)] :
     h \in [1..MaxItems -> Holdings]}
KeyOf(q) == CHOOSE k \in ItemKeys : k[1] = q["PK"].s /\ SortKey(k[2]) = q["SK"]

\* The items of a partition in sort-key order.
RECURSIVE InKeyOrder(_, _, _)
InKeyOrder(tbl, pk, n) ==
    IF n > MaxItems THEN <<>>
    ELSE (IF <<pk, n>> \in ItemKeys /\ tbl[<<pk, n>>] # Absent
          THEN <<tbl[<<pk, n>>]>> ELSE <<>>)
         \o InKeyOrder(tbl, pk, n + 1)
\* table.query(KeyConditionExpression=Key('PK').eq(pk)): one call returns
\* one page of the matching items, and LastEvaluatedKey when more remain.
Query(tbl, pk) ==
    LET matching == InKeyOrder(tbl, pk, 1) IN
    IF Len(matching) <= PageLimit THEN [Items |-> matching, More |-> FALSE]
    ELSE [Items |-> SubSeq(matching, 1, PageLimit), More |-> TRUE]

\* 'answer' in q and q['answer']: the filter without its processed test.
AnsweredOnly(q) ==
    /\ "answer" \in DOMAIN q
    /\ Truthy(q["answer"])

\* 'answer' in q and q['answer'] and not q.get('processed', False)
AnsweredUnprocessed(q) ==
    /\ "answer" \in DOMAIN q
    /\ Truthy(q["answer"])
    /\ ~Truthy(DictGet(q, "processed", PyBool(FALSE)))
RECURSIVE Filter(_)
Filter(items) ==
    IF items = <<>> THEN <<>>
    ELSE (IF AnsweredUnprocessed(Head(items)) THEN <<Head(items)>> ELSE <<>>)
         \o Filter(Tail(items))
\* An item rebuilt from its keys alone: {'PK', 'SK', 'processed': True}.
MarkProcessedKeysOnly(q) ==
    [PK |-> q["PK"], SK |-> q["SK"], processed |-> PyBool(TRUE)]

\* q['processed'] = True
MarkProcessed(q) == [k \in DOMAIN q \cup {"processed"} |->
                        IF k = "processed" THEN PyBool(TRUE) ELSE q[k]]

\* event.get('detail', {}).get('status', 'COMPLETED'): a missing status
\* read as COMPLETED.
JobStatusDefaultsCompleted(ev) ==
    LET detail == DictGet(ev, "detail", PyDict(EmptyDict)) IN
    DictGet(detail.d, "status", PyStr("COMPLETED"))

\* event.get('detail', {}).get('status')
JobStatus(ev) ==
    LET detail == DictGet(ev, "detail", PyDict(EmptyDict)) IN
    DictGet(detail.d, "status", PyNone)
JobStatuses == {"COMPLETED", "FAILED", "IN_PROGRESS"}
UpdaterEvents ==
    {EmptyDict, [detail |-> PyDict(EmptyDict)]}
    \cup {[detail |-> PyDict([status |-> PyStr(st)])] : st \in JobStatuses}
TableFaults == {"ProvisionedThroughputExceededException"}

StatusUpdateProcessed ==
    PyDict([statusCode |-> PyInt(200), body |-> PyStr("Status update processed.")])
NoQuestionsToUpdate ==
    PyDict([statusCode |-> PyInt(200), body |-> PyStr("No questions to update.")])


\* upd also records, for the claims, the table as it was when the handler
\* was invoked (before), the exceptions the table calls raised (raised) and
\* the outcome of the invocation before this one (prev).
InitStatus ==
    /\ calls = <<>>
    /\ pc = "-" /\ stage = "-" /\ event = "-" /\ s3 = "-" /\ llm = "-" /\ out = "-"
    /\ NoOrchestrator /\ NoProcess
    /\ tool = "-" /\ bus = "-"
    /\ table \in Tables
    /\ upd \in [pc : {"start"}, event : UpdaterEvents, todo : {<<>>},
                queries : {0}, puts : {<<>>}, ret : {NotInvoked},
                before : {table}, raised : {<<>>}, prev : {NotInvoked}]

\* Lines 22-26 and 59-69: the branch on the job status.
UpdStart ==
    /\ upd.pc = "start"
    /\ upd' = IF JobStatus(upd.event) = PyStr("COMPLETED")
              THEN [upd EXCEPT !.pc = "query"]
              ELSE [upd EXCEPT !.pc = "done", !.ret = Ok(StatusUpdateProcessed)]
    /\ UNCHANGED <<calls, stageVars, orchVars, proc, tool, table, bus>>

\* Lines 30-45: one query, the filter, and the early return; a failed
\* query is logged and re-raised (lines 55-57).
UpdQuery ==
    /\ upd.pc = "query"
    /\ \E f \in {"none"} \cup TableFaults :
          LET all_questions == Query(table, "QUESTIONS").Items
              answered_questions == Filter(all_questions)
          IN  upd' =
                IF f # "none"
                THEN [upd EXCEPT !.pc = "done", !.queries = @ + 1,
                                 !.raised = Append(@, f),
                                 !.ret = Raise(f, "query failed")]
                ELSE IF answered_questions = <<>>
                THEN [upd EXCEPT !.pc = "done", !.queries = @ + 1,
                                 !.ret = Ok(NoQuestionsToUpdate)]
                ELSE [upd EXCEPT !.pc = "write", !.queries = @ + 1,
                                 !.todo = answered_questions]
    /\ UNCHANGED <<calls, stageVars, orchVars, proc, tool, table, bus>>

\* Lines 49-51: the next item is marked and put; a failed write is logged
\* and re-raised (lines 55-57).
UpdPut ==
    /\ upd.pc = "write" /\ upd.todo # <<>>
    /\ \E f \in {"none"} \cup TableFaults :
          LET q == MarkProcessed(Head(upd.todo)) IN
          IF f # "none"
          THEN /\ upd' = [upd EXCEPT !.pc = "done", !.raised = Append(@, f),
                                      !.ret = Raise(f, "write failed")]
               /\ table' = table
          ELSE /\ upd' = [upd EXCEPT !.todo = Tail(@), !.puts = Append(@, q)]
               /\ table' = [table EXCEPT ![KeyOf(q)] = q]
    /\ UNCHANGED <<calls, stageVars, orchVars, proc, tool, bus>>

\* Lines 53 and 66-69: every item written, the handler returns.
UpdReturn ==
    /\ upd.pc = "write" /\ upd.todo = <<>>
    /\ upd' = [upd EXCEPT !.pc = "done", !.ret = Ok(StatusUpdateProcessed)]
    /\ UNCHANGED <<calls, stageVars, orchVars, proc, tool, table, bus>>

NextStatus == UpdStart \/ UpdQuery \/ UpdPut \/ UpdReturn

SpecStatus == InitStatus /\ [][NextStatus]_vars

\* The question items with a non-empty answer that are not marked processed.
AnsweredNotMarked ==
    {n \in 1..MaxItems :
        LET q == table[<<"QUESTIONS", n>>] IN
        /\ q # Absent
        /\ "answer" \in DOMAIN q /\ q["answer"] # PyStr("")
        /\ DictGet(q, "processed", PyNone) # PyBool(TRUE)}

\* C16: whenever the handler is invoked with detail.status = 'COMPLETED' and
\* returns normally, every item under PK = 'QUESTIONS' with a non-empty
\* answer has processed = True afterwards, whatever the size of the table.
C16_CompletedMarksAllAnswered ==
    (/\ upd.pc = "done"
     /\ JobStatus(upd.event) = PyStr("COMPLETED")
     /\ upd.ret.ok)
    => AnsweredNotMarked = {}

\* =========================================================================
\* week8/1-admin-ui: the resources the Admin construct provisions
\* =========================================================================
\* The rule's event pattern (infra.py lines 74-77).
RuleMatches(ev) ==
    /\ ev.source = "aws.bedrock"
    /\ ev.detail_type = "Bedrock Knowledge Base Ingestion Job State Change"
\* The rule's targets: add_target is called for the log group (line 85);
\* the call for the Lambda function (line 81) is commented out.
StatusUpdaterFunction == "StatusUpdaterFunction"
BedrockEventLogGroup == "BedrockEventLogGroup"
RuleTargets == {BedrockEventLogGroup}

\* Events put on the default bus.
BusEvents ==
    [source : {"aws.bedrock", "aws.s3"},
     detail_type : {"Bedrock Knowledge Base Ingestion Job State Change",
                    "Object Created"},
     status : JobStatuses]
\* The event as the Lambda function receives it.
LambdaEvent(ev) == [detail |-> PyDict([status |-> PyStr(ev.status)])]

NoEvent == [source |-> "", detail_type |-> "", status |-> ""]

InitInfra ==
    /\ calls = <<>>
    /\ pc = "-" /\ stage = "-" /\ event = "-" /\ s3 = "-" /\ llm = "-" /\ out = "-"
    /\ NoOrchestrator /\ NoProcess
    /\ tool = "-"
    /\ table \in Tables
    /\ upd = [pc |-> "idle", event |-> EmptyDict, todo |-> <<>>,
              queries |-> 0, puts |-> <<>>, ret |-> NotInvoked,
              before |-> table, raised |-> <<>>, prev |-> NotInvoked]
    /\ bus = [pc |-> "idle", event |-> NoEvent, logged |-> {}]

\* A service puts an event on the bus, the first or the one after a delivery.
Emit ==
    /\ bus.pc \in {"idle", "delivered"}
    /\ \E ev \in BusEvents : bus' = [bus EXCEPT !.pc = "emitted", !.event = ev]
    /\ UNCHANGED <<calls, stageVars, orchVars, proc, tool, table, upd>>

\* EventBridge evaluates the rule and delivers a matching event to every
\* target of the rule: the log group records it, the function is invoked.
Deliver ==
    /\ bus.pc = "emitted"
    /\ LET hit == RuleMatches(bus.event) IN
       /\ bus' = [bus EXCEPT
                    !.pc = "delivered",
                    !.logged = IF hit /\ BedrockEventLogGroup \in RuleTargets
                               THEN @ \cup {bus.event} ELSE @]
       /\ upd' = IF hit /\ StatusUpdaterFunction \in RuleTargets
                 THEN [upd EXCEPT !.pc = "start", !.event = LambdaEvent(bus.event)]
                 ELSE upd
    /\ UNCHANGED <<calls, stageVars, orchVars, proc, tool, table>>

NextInfra == Emit \/ Deliver
\* EventBridge delivers every event it accepts.
SpecInfra == InitInfra /\ [][NextInfra]_vars /\ WF_vars(NextInfra)

\* An ingestion-job state-change event with status COMPLETED is on the bus.
CompletedEmitted ==
    /\ bus.pc # "idle"
    /\ RuleMatches(bus.event)
    /\ bus.event.status = "COMPLETED"

\* C17: with the resources as provisioned, every Bedrock Knowledge Base
\* ingestion-job state-change event with status COMPLETED eventually causes
\* the status_updater handler to run (and so to mark the answered questions).
C17_CompletedReachesConsumer == CompletedEmitted ~> (upd.pc # "idle")

\* =========================================================================
\* Extractor on a retry_count that is not a number
\* =========================================================================
\* The event carries a retry_count that is JSON null or a string.
RetryCountMalformed ==
    /\ "retry_count" \in DOMAIN event
    /\ event["retry_count"].t \in {"none", "str"}

\* C22: when the input event carries a retry_count that is not a number (JSON
\* null or a string), the extractor still returns a structured result with
\* valid = false and lets no exception escape the handler.
C22_MalformedRetryCountHandled ==
    (Done("extractor") /\ RetryCountMalformed) =>
        /\ out.ok
        /\ out.v.t = "dict"
        /\ "valid" \in DOMAIN out.v.d
        /\ out.v.d["valid"] = PyBool(FALSE)

\* =========================================================================
\* One stage invocation, call by call
\* =========================================================================
\* bucket = event["bucket"]; key = event["key"] (extractor lines 84-85).
ExtractorLocate(ev) ==
    IF "bucket" \notin DOMAIN ev THEN Raise("KeyError", "'bucket'")
    ELSE IF "key" \notin DOMAIN ev THEN Raise("KeyError", "'key'")
    ELSE Ok([bucket |-> ev["bucket"], key |-> ev["key"]])
StageLocate(st, ev) ==
    IF st = "extractor" THEN ExtractorLocate(ev) ELSE ValidatorLocate(ev)

GetObjectCall == "get_object"
InferenceCall == "inference"
\* What inference answers either stage.
CallsLlm == ChainLlm \cup ClassifyLlm

InitCalls ==
    /\ calls = <<>>
    /\ NoOrchestrator /\ NoProcess /\ NoAdmin
    /\ pc = "ready" /\ out = NotInvoked
    /\ stage \in {"extractor", "validator"}
    /\ event \in Events /\ s3 \in S3Outcomes /\ llm \in CallsLlm

\* The handler works out which object the event names.
StageStart ==
    /\ pc = "ready"
    /\ pc' = IF StageLocate(stage, event).ok THEN "located" ELSE "failed"
    /\ UNCHANGED <<calls, stage, event, s3, llm, out, orchVars, proc, adminVars>>

\* s3_client.get_object(...) and the read of its body, with get_object
\* failing and the handler going on to the inference call all the same.
StageGetObjectContinues ==
    /\ pc = "located"
    /\ calls' = Append(calls, GetObjectCall)
    /\ pc' = "read"
    /\ UNCHANGED <<stage, event, s3, llm, out, orchVars, proc, adminVars>>

\* s3_client.get_object(...) and the read of its body: an exception leaves
\* the try body.
StageGetObject ==
    /\ pc = "located"
    /\ calls' = Append(calls, GetObjectCall)
    /\ LET ref == StageLocate(stage, event).v IN
       pc' = IF GetObjectAndRead(s3, ref.bucket, ref.key).ok THEN "read" ELSE "failed"
    /\ UNCHANGED <<stage, event, s3, llm, out, orchVars, proc, adminVars>>

\* The call of the agent on the document read.
StageInfer ==
    /\ pc = "read"
    /\ calls' = Append(calls, InferenceCall)
    /\ pc' = "inferred"
    /\ UNCHANGED <<stage, event, s3, llm, out, orchVars, proc, adminVars>>

\* The handler returns its result, from the try body or the except body.
StageReturn ==
    /\ pc \in {"failed", "inferred"}
    /\ out' = StageHandler(stage, event, s3, llm)
    /\ pc' = "done"
    /\ UNCHANGED <<calls, stage, event, s3, llm, orchVars, proc, adminVars>>

NextCalls == StageStart \/ StageGetObject \/ StageInfer \/ StageReturn

SpecCalls == InitCalls /\ [][NextCalls]_vars

\* The event names an object and the object store returns it.
StageReadSucceeds ==
    IF stage = "extractor" THEN ExtractorReadSucceeds ELSE ValidatorReadSucceeds

\* C21: call ordering within one stage invocation. Each invocation of the
\* validator or the extractor makes at most one get_object call and at most
\* one inference call, get_object before inference, and when get_object
\* fails or bucket/key is missing it makes no inference call.
C21_CallOrdering ==
    /\ calls \in {<<>>, <<"get_object">>, <<"get_object", "inference">>}
    /\ (pc = "done" /\ ~StageReadSucceeds) => calls \in {<<>>, <<"get_object">>}

\* get_object raised NoSuchKey and the invocation ended without inference.
C21_Witness ==
    /\ pc = "done"
    /\ s3.fault = "NoSuchKey"
    /\ calls = <<"get_object">>
    /\ out.ok

\* =========================================================================
\* The status_updater handler: frame, idempotence, errors
\* =========================================================================
\* detail.status is 'FAILED', any other value, or absent (no detail at all
\* included).
StatusNotCompleted ==
    \/ "detail" \notin DOMAIN upd.event
    \/ "status" \notin DOMAIN upd.event["detail"].d
    \/ upd.event["detail"].d["status"] # PyStr("COMPLETED")

\* C23: when detail.status is 'FAILED', any other value, or absent, the
\* handler performs no table read or write, leaves the table unchanged and
\* returns statusCode 200 with body 'Status update processed.'.
C23_OtherStatusNoAction ==
    (upd.pc = "done" /\ StatusNotCompleted) =>
        /\ upd.queries = 0
        /\ upd.puts = <<>>
        /\ table = upd.before
        /\ upd.ret = Ok(PyDict([statusCode |-> PyInt(200),
                                body |-> PyStr("Status update processed.")]))

\* An event without detail ended with answered questions left unmarked.
C23_Witness ==
    /\ upd.pc = "done"
    /\ "detail" \notin DOMAIN upd.event
    /\ AnsweredNotMarked # {}
    /\ upd.queries = 0
    /\ upd.ret.ok

\* An item the handler is to write: a non-empty answer, not yet processed.
Eligible(q) ==
    /\ q # Absent
    /\ "answer" \in DOMAIN q /\ q["answer"] # PyStr("")
    /\ ("processed" \notin DOMAIN q \/ q["processed"] # PyBool(TRUE))
\* new is old with processed = True and every other attribute as it was.
OnlyProcessedSet(old, new) ==
    /\ DOMAIN new = DOMAIN old \cup {"processed"}
    /\ new["processed"] = PyBool(TRUE)
    /\ \A attr \in DOMAIN old \ {"processed"} : new[attr] = old[attr]

\* C24: on COMPLETED the handler writes only items that have a non-empty
\* answer and are not yet processed; an item without an answer, with an empty
\* answer or already processed is not written, and every written item keeps
\* every attribute other than processed (PK and SK included) as the query
\* read it, so no item is created, deleted or re-keyed.
C24_CompletedFrame ==
    /\ \A i \in 1..Len(upd.puts) :
          \E k \in ItemKeys :
             /\ Eligible(upd.before[k])
             /\ OnlyProcessedSet(upd.before[k], upd.puts[i])
             /\ table[k] = upd.puts[i]
    /\ \A k \in ItemKeys :
          table[k] # upd.before[k] =>
             /\ Eligible(upd.before[k])
             /\ OnlyProcessedSet(upd.before[k], table[k])
             /\ \E i \in 1..Len(upd.puts) : upd.puts[i] = table[k]

\* Two items were written and an item with an empty answer was left alone.
C24_Witness ==
    /\ upd.pc = "done" /\ upd.ret.ok
    /\ Len(upd.puts) = 2
    /\ \E k \in ItemKeys :
          /\ table[k] # Absent
          /\ "answer" \in DOMAIN table[k] /\ table[k]["answer"] = PyStr("")
          /\ table[k] = upd.before[k]
    /\ \E k \in ItemKeys :
          /\ table[k] # upd.before[k]
          /\ "processed" \in DOMAIN upd.before[k]
          /\ upd.before[k]["processed"] = PyBool(FALSE)

\* EventBridge invokes the handler again with the same event, after the
\* first invocation ended and with no table change in between.
UpdInvokeAgain ==
    /\ upd.pc = "done"
    /\ upd.prev = NotInvoked
    /\ JobStatus(upd.event) = PyStr("COMPLETED")
    /\ upd' = [upd EXCEPT !.pc = "start", !.todo = <<>>, !.queries = 0,
                          !.puts = <<>>, !.ret = NotInvoked, !.before = table,
                          !.raised = <<>>, !.prev = upd.ret]
    /\ UNCHANGED <<calls, stageVars, orchVars, proc, tool, table, bus>>

NextAgain == NextStatus \/ UpdInvokeAgain

SpecAgain == InitStatus /\ [][NextAgain]_vars

\* C25: idempotence and error propagation. A second COMPLETED invocation
\* after a first that returned, with no table change in between, performs no
\* writes and returns body 'No questions to update.', leaving the table as
\* the first invocation left it; and when the table query or the batch write
\* raises, the handler re-raises the exception instead of returning 200.
C25_IdempotentAndReraises ==
    /\ (upd.pc = "done" /\ upd.prev.ok /\ upd.raised = <<>>) =>
          /\ upd.puts = <<>>
          /\ table = upd.before
          /\ upd.ret = Ok(PyDict([statusCode |-> PyInt(200),
                                  body |-> PyStr("No questions to update.")]))
    /\ (upd.pc = "done" /\ upd.raised # <<>>) =>
          /\ ~upd.ret.ok
          /\ upd.ret.exc = upd.raised[1]

\* The first invocation wrote items and returned; the second found nothing
\* to update.
C25_Witness ==
    /\ upd.pc = "done"
    /\ upd.prev = Ok(StatusUpdateProcessed)
    /\ upd.puts = <<>>
    /\ upd.ret = Ok(NoQuestionsToUpdate)
    /\ \E k \in ItemKeys :
          /\ table[k] # Absent
          /\ "processed" \in DOMAIN table[k]
          /\ table[k]["processed"] = PyBool(TRUE)

\* =========================================================================
\* The status_updater handler beside another writer of the table
\* =========================================================================
\* The admin API function is given the same table (infra.py lines 40-46).
\* The answer it stores when it edits a question.
EditedAnswer == PyStr("By the day.")
HoldsEdit(q) == q # Absent /\ "answer" \in DOMAIN q /\ q["answer"] = EditedAnswer

\* The other writer sets the answer of a question item, at any moment.
OtherWriterEdit ==
    /\ \E n \in 1..MaxItems :
          LET k == <<"QUESTIONS", n>>
              q == table[k]
          IN  /\ q # Absent
              /\ ~HoldsEdit(q)
              /\ table' = [table EXCEPT
                             ![k] = [a \in DOMAIN q \cup {"answer"} |->
                                       IF a = "answer" THEN EditedAnswer ELSE q[a]]]
    /\ UNCHANGED <<calls, stageVars, orchVars, proc, tool, upd, bus>>

NextWriters == NextStatus \/ OtherWriterEdit

SpecWriters == InitStatus /\ [][NextWriters]_vars

\* C26: no lost update. A change another writer made to a question item
\* between the handler's query and its put of that item is still there
\* after the put: the handler's write sets processed and overwrites no
\* concurrent change to another attribute.
C26_NoLostUpdate ==
    [][\A k \in ItemKeys : HoldsEdit(table[k]) => HoldsEdit(table'[k])]_vars

====
